---- MODULE Spec2Model ----
(***************************************************************************)
(* Control logic of train_drmm.py: the training loop of the DRMM trainer   *)
(* (wrap-around batch fetching, periodic validation through valid_fn, the  *)
(* two-level best-checkpoint gate) modelled statement by statement.        *)
(*                                                                         *)
(* Abstractions.                                                           *)
(*  - A batch is identified by its position 1..N in the loader's dataset   *)
(*    order (batch granularity; what a batch contains is the DataLoader's  *)
(*    business).                                                           *)
(*  - The model parameters are identified by a version number: the number  *)
(*    of optimizer.step() calls applied to them.                           *)
(*  - A Python float x is stored as the integer x * 10 * valid_num (fixed  *)
(*    point), so that the division by valid_num at the end of valid_fn is  *)
(*    exact; float('inf') is the value Inf.  A per-sample batch loss       *)
(*    (loss.item() / batch_size) is drawn from LossVals, in tenths.        *)
(*  - tqdm progress bars are not modelled, except pbar.write (the          *)
(*    confirmation message).                                               *)
(*  - An exception nothing catches ends the process: pc = "crashed", err   *)
(*    names the exception and the line that raised it.                     *)
(*  - The loop is unbounded; the model follows it for MaxStep iterations.  *)
(***************************************************************************)
EXTENDS Integers, Sequences, FiniteSets, TLC

\* ---------------------------------------------------------------- bounds
MaxStep == 8
MaxValidSteps == 2
MaxSaveSteps == 4
MaxValidNum == 1
MaxTrainN == 2
MaxTestN == 3
LossVals == {3, 5, 9}
MaxBatch == 2

\* ---------------------------------------------------------------- values
Inf == -1
None == -2
\* the value of a name bound to the model's own parameter tensors
LiveRef == -3

\* a < b on floats, float('inf') included
Lt(a, b) == a # Inf /\ (b = Inf \/ a < b)
Leq(a, b) == a = b \/ Lt(a, b)

\* the least of the losses returned so far, once v is returned too
Lowest(sofar, v) == IF Lt(v, sofar) THEN v ELSE sofar

NoError == [kind |-> "none", line |-> 0]

VARIABLES
    valid_steps, save_steps, valid_num,  \* argvs
    train_loader, test_loader,           \* number of batches of each DataLoader
    train_iterator, test_iterator,       \* batches left in the iterator object bound to the name
    batch,                               \* training batch of this iteration
    params, opt_state, mode,             \* drmm_model parameters (version), optimizer, train/eval
    step, min_loss, prev_loss, best_state_dict, valid_loss,
    pc,                                  \* position of the main program
    iterator, i, running_loss, vbatch,   \* locals of valid_fn
    writes, msgs,                        \* torch.save calls and pbar.write messages, in order
    err,                                 \* the exception that ended the process, if any
    lowest,                              \* history: least loss returned by valid_fn so far
    snap,                                \* history: parameters the model had at line 146
    at_call,                             \* history: training state at the call of valid_fn, kept until line 144
    consumed,                            \* history: the last two batches consumed by valid_fn
    valid_rebuilds,                      \* history: executions of line 36
    train_draws, train_rebuilds, pass_seen, \* history: training batch cycler
    scores_pos, scores_neg, loss,        \* loss_fn: its two score tensors and its result
    valid_calls,                         \* history: calls of valid_fn so far
    pulled, batch_losses                 \* history: batches fetched and losses computed by the current call

cfgvars == <<valid_steps, save_steps, valid_num, train_loader, test_loader>>
mainvars == <<batch, params, opt_state, mode, step, min_loss, prev_loss,
              best_state_dict, valid_loss>>
validvars == <<iterator, i, running_loss, vbatch>>
outvars == <<writes, msgs>>
histvars == <<lowest, snap, at_call, consumed, valid_rebuilds>>
trainhist == <<train_draws, train_rebuilds, pass_seen>>
lossvars == <<scores_pos, scores_neg, loss>>
callhist == <<valid_calls, pulled, batch_losses>>
vars == <<cfgvars, train_iterator, test_iterator, mainvars, pc, validvars,
          outvars, err, histvars, trainhist, lossvars, callhist>>

\* ------------------------------------------------------------ DataLoader
\* mutant: the rebuilt cursor is the exhausted one
SequentialOrder_exhausted(N) == <<>>

\* iter(test_loader): shuffle=False, the batches in dataset order
SequentialOrder(N) == [k \in 1..N |-> k]

\* mutant: batches sampled with replacement
RandomOrders_replacement(N) == [1..N -> 1..N]

\* iter(train_loader): shuffle=True, a random permutation without replacement
RandomOrders(N) ==
    {s \in [1..N -> 1..N] : \A a, b \in 1..N : s[a] = s[b] => a = b}

\* ------------------------------------------------------------ small steps
\* mutant: nothing is bound at line 146
StateDict_none == None

\* drmm_model.state_dict(): a dictionary of references to the live parameter
\* tensors, not a copy
StateDict == LiveRef

\* mutant: the state dict holds the parameters before the last update
Deref_previous(sd, p) == IF sd = LiveRef THEN p - 1 ELSE None

\* what a state dict holds when it is read, the live parameters being p
Deref(sd, p) == IF sd = LiveRef THEN p ELSE None

\* optimizer.step(): in-place update of the parameters
OptimizerStep(p) == p + 1

\* mutant: valid_fn leaves the model in inference mode
RestoredMode_missing == "eval"

\* line 46: drmm_model.train() at the end of valid_fn
RestoredMode == "train"

\* mutant: the validation pass also updates the parameters
ForwardNoGrad_updates(p) == p + 1

\* model_fn under torch.no_grad(): forward pass only
ForwardNoGrad(p) == p

\* mutant: the latest validation result always becomes the candidate
CandImproves_always(v, m) == TRUE

\* line 144: if valid_loss < min_loss
CandImproves(v, m) == Lt(v, m)

\* mutant: the comparison of line 151 is reversed
ShouldSave_reversed(m, p) == Lt(p, m)

\* mutant: non-strict save gate
ShouldSave_nonstrict(m, p) == Leq(m, p)

\* line 151: if min_loss < prev_loss
ShouldSave(m, p) == Lt(m, p)

\* mutant: prev_loss takes the latest validation loss
NewPrevLoss_latest(m, v) == v

\* line 153: prev_loss = min_loss (m), not the latest valid_loss (v)
NewPrevLoss(m, v) == m

\* mutant: the gate tests step instead of step + 1
ValidDue_offbyone(n, vs) == (n - 1) % vs = 0

\* line 138: (step + 1) % valid_steps == 0, n being step + 1
ValidDue(n, vs) == n % vs = 0

\* mutant: the gate tests step instead of step + 1
SaveDue_offbyone(n, ss) == (n - 1) % ss = 0

\* line 150: (step + 1) % save_steps == 0, n being step + 1
SaveDue(n, ss) == n % ss = 0

\* mutant: the counter skips a step
StepIncr_skips(s) == s + 2

\* line 156: step += 1
StepIncr(s) == s + 1

\* the locals of valid_fn while valid_fn is not running
NoLocals == [iterator |-> [obj |-> "none", rest |-> <<>>], i |-> 0,
             running_loss |-> 0, vbatch |-> 0]

Raise(kind, line) ==
    /\ pc' = "crashed"
    /\ err' = [kind |-> kind, line |-> line]

\* ---------------------------------------------------------------- loss_fn
\* The score tensors are float32.  A score is held as an integer number of
\* units of 2^-25, so 1.0 is One; every such number below 2^24 in magnitude
\* is a float32, and the exact result of adding two of them is again a
\* number of units, which float32 arithmetic rounds to 24 significant bits,
\* ties to even.
One == 33554432

Abs(n) == IF n < 0 THEN -n ELSE n

\* distance between neighbouring float32 values at magnitude a
RECURSIVE Ulp(_)
Ulp(a) == IF a < 16777216 THEN 1 ELSE 2 * Ulp(a \div 2)

\* the float32 nearest to n, ties to even
Fl(n) ==
    LET a == Abs(n)
        u == Ulp(a)
        q == a \div u
        r == a % u
        m == IF 2 * r < u THEN q
             ELSE IF 2 * r > u THEN q + 1
             ELSE IF q % 2 = 0 THEN q ELSE q + 1
    IN IF n < 0 THEN -(m * u) ELSE m * u

MaxF(a, b) == IF a >= b THEN a ELSE b

\* mutant: the margin term dropped
Hinge_nomargin(sp, sn) == MaxF(0, Fl(Fl(0 - sp) + sn))

\* line 15, one element: max(0, 1.0 - score_pos + score_neg), evaluated left
\* to right, each operation rounded
Hinge(sp, sn) == MaxF(0, Fl(Fl(One - sp) + sn))

\* torch.sum of the elements taken in the order ord
RECURSIVE SumFl(_, _, _)
SumFl(xs, ord, k) ==
    IF k = 0 THEN 0 ELSE Fl(SumFl(xs, ord, k - 1) + xs[ord[k]])

\* lines 13-15: the values loss_fn can return (torch.sum fixes no order)
loss_fn(sp, sn) ==
    LET h == [k \in 1..Len(sp) |-> Hinge(sp[k], sn[k])]
    IN {SumFl(h, ord, Len(sp)) : ord \in RandomOrders(Len(sp))}

\* scores the check feeds loss_fn: -1.0, float32(-0.3), 0.0, 1.0, 2.0
Scores == {-One, -10066330, 0, One, 2 * One}

\* ------------------------------------------------------------------ Init
\* lines 101-118: the cursors and the training state, the arguments given
InitTraining ==
    /\ test_iterator = SequentialOrder(test_loader)
    /\ batch = 0
    /\ params = 0
    /\ opt_state = 0
    /\ mode = "train"
    /\ step = 0
    /\ min_loss = Inf
    /\ prev_loss = Inf
    /\ best_state_dict = None
    /\ valid_loss = None
    /\ pc = "fetch"
    /\ iterator = NoLocals.iterator
    /\ i = NoLocals.i
    /\ running_loss = NoLocals.running_loss
    /\ vbatch = NoLocals.vbatch
    /\ writes = <<>>
    /\ msgs = <<>>
    /\ err = NoError
    /\ lowest = Inf
    /\ snap = None
    /\ at_call = None
    /\ consumed = <<0, 0>>
    /\ valid_rebuilds = 0
    /\ train_draws = 0
    /\ train_rebuilds = 0
    /\ pass_seen = {}
    /\ valid_calls = 0
    /\ pulled = 0
    /\ batch_losses = <<>>

\* in the training program the loss model_fn returns is drawn from LossVals;
\* loss_fn is examined on its own under SpecLoss
NoLossCall ==
    /\ scores_pos = <<>>
    /\ scores_neg = <<>>
    /\ loss = None

Init ==
    /\ valid_steps \in 0..MaxValidSteps
    /\ save_steps \in 0..MaxSaveSteps
    /\ valid_num \in 0..MaxValidNum
    /\ train_loader \in 1..MaxTrainN
    /\ test_loader \in 0..MaxTestN
    \* the training cursor and the sampling loop of valid_fn share no state:
    \* longer validation runs are explored with the one-batch training set
    /\ valid_num <= 1 \/ train_loader = 1
    /\ train_iterator \in RandomOrders(train_loader)
    /\ InitTraining
    /\ NoLossCall

\* ------------------------------------------------------- training loop
\* lines 120-125: while True / next(train_iterator) with wrap-around
TrainFetch ==
    /\ pc = "fetch"
    /\ step < MaxStep
    /\ IF train_iterator # <<>>
       THEN /\ batch' = Head(train_iterator)
            /\ train_iterator' = Tail(train_iterator)
            /\ train_rebuilds' = train_rebuilds
            /\ pass_seen' = pass_seen \cup {Head(train_iterator)}
            /\ train_draws' = train_draws + 1
            /\ pc' = "train"
            /\ err' = err
       ELSE \E fresh \in RandomOrders(train_loader) :
            IF fresh # <<>>
            THEN /\ batch' = Head(fresh)
                 /\ train_iterator' = Tail(fresh)
                 /\ train_rebuilds' = train_rebuilds + 1
                 /\ pass_seen' = {Head(fresh)}
                 /\ train_draws' = train_draws + 1
                 /\ pc' = "train"
                 /\ err' = err
            ELSE /\ Raise("StopIteration", 125)
                 /\ train_iterator' = fresh
                 /\ UNCHANGED <<batch, trainhist>>
    /\ UNCHANGED <<lossvars, callhist, cfgvars, test_iterator, params, opt_state, mode, step,
                   min_loss, prev_loss, best_state_dict, valid_loss,
                   validvars, outvars, histvars>>

\* lines 127-130: model_fn, backward, optimizer.step, zero_grad
TrainStep ==
    /\ pc = "train"
    /\ params' = OptimizerStep(params)
    /\ opt_state' = opt_state + 1
    /\ pc' = "valid_gate"
    /\ UNCHANGED <<lossvars, callhist, cfgvars, train_iterator, test_iterator, batch, mode, step,
                   min_loss, prev_loss, best_state_dict, valid_loss,
                   validvars, outvars, err, histvars, trainhist>>

\* lines 127-130 raising (device mismatch, out of memory, ...)
TrainFault ==
    /\ pc = "train"
    /\ Raise("CollaboratorFault", 127)
    /\ UNCHANGED <<lossvars, callhist, cfgvars, train_iterator, test_iterator, mainvars,
                   validvars, outvars, histvars, trainhist>>

\* line 138: if (step + 1) % valid_steps == 0; lines 141-142 bind the
\* parameter `iterator` of valid_fn to the object test_iterator names
ValidGate ==
    /\ pc = "valid_gate"
    /\ IF valid_steps = 0
       THEN /\ Raise("ZeroDivisionError", 138)
            /\ UNCHANGED <<iterator, at_call, valid_calls>>
       ELSE IF ValidDue(step + 1, valid_steps)
       THEN /\ pc' = "v_eval"
            /\ valid_calls' = valid_calls + 1
            /\ iterator' = [obj |-> "test_iterator", rest |-> <<>>]
            /\ at_call' = [params |-> params, opt_state |-> opt_state,
                           min_loss |-> min_loss, prev_loss |-> prev_loss,
                           best_state_dict |-> best_state_dict,
                           contents |-> Deref(best_state_dict, params),
                           step |-> step, mode |-> mode]
            /\ err' = err
       ELSE /\ pc' = "save_gate"
            /\ err' = err
            /\ UNCHANGED <<iterator, at_call, valid_calls>>
    /\ UNCHANGED <<lossvars, pulled, batch_losses, cfgvars, train_iterator, test_iterator, mainvars,
                   i, running_loss, vbatch, outvars, lowest, snap, consumed,
                   valid_rebuilds, trainhist>>

\* ------------------------------------------------------------- valid_fn
\* lines 29-31
VEval ==
    /\ pc = "v_eval"
    /\ mode' = "eval"
    /\ running_loss' = 0
    /\ i' = 0
    /\ pulled' = 0
    /\ batch_losses' = <<>>
    /\ pc' = "v_loop"
    /\ UNCHANGED <<lossvars, valid_calls, cfgvars, train_iterator, test_iterator, batch, params,
                   opt_state, step, min_loss, prev_loss, best_state_dict,
                   valid_loss, iterator, vbatch, outvars, err, histvars,
                   trainhist>>

\* line 32: for i in range(valid_num)
VLoop ==
    /\ pc = "v_loop"
    /\ pc' = IF i < valid_num THEN "v_fetch" ELSE "v_train"
    /\ UNCHANGED <<lossvars, callhist, cfgvars, train_iterator, test_iterator, mainvars,
                   validvars, outvars, err, histvars, trainhist>>

\* the batches left in the object the local name `iterator` refers to
IterRest == IF iterator.obj = "test_iterator" THEN test_iterator ELSE iterator.rest

\* lines 33-37: next(iterator); on StopIteration the LOCAL name is rebound to
\* a fresh iterator, the caller's test_iterator keeps naming the old object
VFetch ==
    /\ pc = "v_fetch"
    /\ IF IterRest # <<>>
       THEN /\ vbatch' = Head(IterRest)
            /\ consumed' = <<consumed[2], Head(IterRest)>>
            /\ IF iterator.obj = "test_iterator"
               THEN /\ test_iterator' = Tail(test_iterator)
                    /\ iterator' = iterator
               ELSE /\ iterator' = [iterator EXCEPT !.rest = Tail(iterator.rest)]
                    /\ test_iterator' = test_iterator
            /\ valid_rebuilds' = valid_rebuilds
            /\ pulled' = pulled + 1
            /\ pc' = "v_loss"
            /\ err' = err
       ELSE LET fresh == SequentialOrder(test_loader) IN
            IF fresh # <<>>
            THEN /\ vbatch' = Head(fresh)
                 /\ consumed' = <<consumed[2], Head(fresh)>>
                 /\ iterator' = [obj |-> "fresh", rest |-> Tail(fresh)]
                 /\ test_iterator' = test_iterator
                 /\ valid_rebuilds' = valid_rebuilds + 1
                 /\ pulled' = pulled + 1
                 /\ pc' = "v_loss"
                 /\ err' = err
            ELSE /\ Raise("StopIteration", 37)
                 /\ iterator' = [obj |-> "fresh", rest |-> fresh]
                 /\ valid_rebuilds' = valid_rebuilds + 1
                 /\ UNCHANGED <<vbatch, consumed, test_iterator, pulled>>
    /\ UNCHANGED <<lossvars, valid_calls, batch_losses, cfgvars, train_iterator, mainvars, i, running_loss,
                   outvars, lowest, snap, at_call, trainhist>>

\* lines 38-40 (and the loop increment): loss of the batch under no_grad,
\* running_loss += loss.item() / batch_size
VLoss ==
    /\ pc = "v_loss"
    /\ \E l \in LossVals :
         /\ running_loss' = running_loss + l * valid_num
         /\ batch_losses' = Append(batch_losses, l)
    /\ params' = ForwardNoGrad(params)
    /\ i' = i + 1
    /\ pc' = "v_loop"
    /\ UNCHANGED <<lossvars, valid_calls, pulled, cfgvars, train_iterator, test_iterator, batch, opt_state,
                   mode, step, min_loss, prev_loss, best_state_dict,
                   valid_loss, iterator, vbatch, outvars, err, histvars,
                   trainhist>>

\* line 39 raising
VFault ==
    /\ pc = "v_loss"
    /\ Raise("CollaboratorFault", 39)
    /\ UNCHANGED <<lossvars, callhist, cfgvars, train_iterator, test_iterator, mainvars,
                   validvars, outvars, histvars, trainhist>>

\* lines 45-46: drmm_model.train()
VTrain ==
    /\ pc = "v_train"
    /\ mode' = RestoredMode
    /\ pc' = "v_return"
    /\ UNCHANGED <<lossvars, callhist, cfgvars, train_iterator, test_iterator, batch, params,
                   opt_state, step, min_loss, prev_loss, best_state_dict,
                   valid_loss, validvars, outvars, err, histvars, trainhist>>

\* line 47: return running_loss / valid_num; the locals of valid_fn end here
VReturn ==
    /\ pc = "v_return"
    /\ IF valid_num = 0
       THEN /\ Raise("ZeroDivisionError", 47)
            /\ UNCHANGED <<valid_loss, lowest, validvars>>
       ELSE /\ valid_loss' = running_loss \div valid_num
            /\ lowest' = Lowest(lowest, running_loss \div valid_num)
            /\ iterator' = NoLocals.iterator
            /\ i' = NoLocals.i
            /\ running_loss' = NoLocals.running_loss
            /\ vbatch' = NoLocals.vbatch
            /\ pc' = "cand"
            /\ err' = err
    /\ UNCHANGED <<lossvars, callhist, cfgvars, train_iterator, test_iterator, batch, params,
                   opt_state, mode, step, min_loss, prev_loss,
                   best_state_dict, outvars, snap, at_call,
                   consumed, valid_rebuilds, trainhist>>

\* ------------------------------------------------ candidate and save gate
\* lines 144-146
Candidate ==
    /\ pc = "cand"
    /\ IF CandImproves(valid_loss, min_loss)
       THEN /\ min_loss' = valid_loss
            /\ best_state_dict' = StateDict
            /\ snap' = params
       ELSE UNCHANGED <<min_loss, best_state_dict, snap>>
    /\ at_call' = None
    /\ pulled' = 0
    /\ batch_losses' = <<>>
    /\ pc' = "save_gate"
    /\ UNCHANGED <<lossvars, valid_calls, cfgvars, train_iterator, test_iterator, batch, params,
                   opt_state, mode, step, prev_loss, valid_loss, validvars,
                   outvars, err, lowest, consumed, valid_rebuilds,
                   trainhist>>

\* lines 150-154
SaveGate ==
    /\ pc = "save_gate"
    /\ IF save_steps = 0
       THEN /\ Raise("ZeroDivisionError", 150)
            /\ UNCHANGED <<prev_loss, outvars>>
       ELSE IF SaveDue(step + 1, save_steps) /\ ShouldSave(min_loss, prev_loss)
       THEN /\ writes' = Append(writes,
                   [n |-> step + 1,
                    params |-> Deref(best_state_dict, params),
                    best |-> snap])
            /\ prev_loss' = NewPrevLoss(min_loss, valid_loss)
            /\ msgs' = Append(msgs, [n |-> step + 1, loss |-> min_loss])
            /\ pc' = "incr"
            /\ err' = err
       ELSE /\ pc' = "incr"
            /\ err' = err
            /\ UNCHANGED <<prev_loss, outvars>>
    /\ UNCHANGED <<lossvars, callhist, cfgvars, train_iterator, test_iterator, batch, params,
                   opt_state, mode, step, min_loss, best_state_dict,
                   valid_loss, validvars, histvars, trainhist>>

\* line 152 raising (checkpoint I/O error)
SaveFault ==
    /\ pc = "save_gate"
    /\ save_steps # 0
    /\ SaveDue(step + 1, save_steps)
    /\ ShouldSave(min_loss, prev_loss)
    /\ Raise("CollaboratorFault", 152)
    /\ UNCHANGED <<lossvars, callhist, cfgvars, train_iterator, test_iterator, mainvars,
                   validvars, outvars, histvars, trainhist>>

\* line 156
Incr ==
    /\ pc = "incr"
    /\ step' = StepIncr(step)
    /\ pc' = "fetch"
    /\ UNCHANGED <<lossvars, callhist, cfgvars, train_iterator, test_iterator, batch, params,
                   opt_state, mode, min_loss, prev_loss, best_state_dict,
                   valid_loss, validvars, outvars, err, histvars, trainhist>>

Next ==
    \/ TrainFetch
    \/ TrainStep
    \/ TrainFault
    \/ ValidGate
    \/ VEval
    \/ VLoop
    \/ VFetch
    \/ VLoss
    \/ VFault
    \/ VTrain
    \/ VReturn
    \/ Candidate
    \/ SaveGate
    \/ SaveFault
    \/ Incr

Spec == Init /\ [][Next]_vars

\* ------------------------------------------------------- loss_fn on its own
\* a call of loss_fn with two score tensors of one batch
InitLoss ==
    /\ valid_steps = 1 /\ save_steps = 1 /\ valid_num = 1
    /\ train_loader = 1 /\ test_loader = 1
    /\ train_iterator = SequentialOrder(train_loader)
    /\ InitTraining
    /\ \E B \in 1..MaxBatch :
         /\ scores_pos \in [1..B -> Scores]
         /\ scores_neg \in [1..B -> Scores]
    /\ loss = None

\* lines 13-15
LossFn ==
    /\ loss = None
    /\ loss' \in loss_fn(scores_pos, scores_neg)
    /\ UNCHANGED <<scores_pos, scores_neg, cfgvars, train_iterator,
                   test_iterator, mainvars, pc, validvars, outvars, err,
                   histvars, trainhist, callhist>>

NextLoss == LossFn

SpecLoss == InitLoss /\ [][NextLoss]_vars

\* ------------------------------------------------------------ properties
InValidFn == pc \in {"v_eval", "v_loop", "v_fetch", "v_loss", "v_train", "v_return"}

LoopPcs == {"fetch", "train", "valid_gate", "cand", "save_gate", "incr"}

Last(s) == s[Len(s)]

\* C1: every checkpoint write persists the best model seen: the parameters
\* written by torch.save are the parameters the model had at the validation
\* step whose loss became min_loss, whatever optimizer updates came between.
C1_WritePersistsBestModel ==
    \A k \in 1..Len(writes) : writes[k].params = writes[k].best

\* C2: prev_loss never increases, and at every checkpoint write the recorded
\* loss (the new prev_loss and the loss of the confirmation message) is the
\* value of min_loss at the time of the write.
C2_PrevLossMonotoneAndRecorded ==
    [][ /\ Leq(prev_loss', prev_loss)
        /\ writes' # writes =>
              /\ Len(writes') = Len(writes) + 1
              /\ prev_loss' = min_loss
              /\ msgs' = Append(msgs, [n |-> step + 1, loss |-> min_loss]) ]_vars

C2_Witness ==
    /\ Len(writes) >= 2
    /\ Len(msgs) = Len(writes)
    /\ prev_loss = Last(msgs).loss
    /\ Lt(prev_loss, msgs[1].loss)

\* C3: the validation cursor continues across calls of valid_fn: every batch
\* valid_fn consumes is the cyclic successor, in the fixed validation order,
\* of the batch consumed before it (by this call or by the previous one),
\* the first one ever being batch 1.
C3_CursorContinuesAcrossCalls ==
    consumed[2] # 0 =>
        IF consumed[1] = 0 THEN consumed[2] = 1
        ELSE consumed[2] = (consumed[1] % test_loader) + 1

\* C4: training batch cycler, N = train_loader >= 1: after k >= 1 draws
\* exactly floor((k-1)/N) rebuilds have happened and the draws of the
\* current pass are pairwise distinct batches (so N draws of a pass visit
\* every batch once, and draw N+1 causes exactly one rebuild).
C4_TrainCycler ==
    train_draws >= 1 =>
        /\ train_rebuilds = (train_draws - 1) \div train_loader
        /\ Cardinality(pass_seen) = ((train_draws - 1) % train_loader) + 1
        /\ pass_seen \subseteq 1..train_loader
        /\ Len(train_iterator) = train_loader - Cardinality(pass_seen)

C4_Witness ==
    /\ train_loader = 2
    /\ train_draws = 3
    /\ train_rebuilds = 1
    /\ pc = "train"

\* C5 (as stated): no StopIteration ever escapes, for every finite dataset,
\* one that yields zero batches included.
C5_NoStopIterationEscapes == err.kind # "StopIteration"

\* C5 (amended): for datasets that yield at least one batch no StopIteration
\* escapes from the training loop or from valid_fn: exhaustion is handled by
\* rebuilding the cursor and taking its first batch.
C5_NoEscapeWhenNonEmpty ==
    (train_loader >= 1 /\ test_loader >= 1) => err.kind # "StopIteration"

C5_Witness ==
    /\ test_loader >= 1
    /\ train_rebuilds >= 1
    /\ valid_rebuilds >= 1
    /\ pc = "v_loss"
    /\ vbatch = 1

\* C6: the model is in training mode whenever control is outside valid_fn,
\* also when valid_fn was left by an error raised in its sampling loop.
C6_TrainModeOnEveryExit == ~InValidFn => mode = "train"

\* C7: after the save phase of a save step n, a write has happened at n
\* exactly when the minimum of all validation losses returned so far is
\* strictly below the loss recorded by the previous write, and the loss
\* the write records is that minimum.
WroteAt(n) == writes # <<>> /\ Last(writes).n = n

PreviousRecorded(n) ==
    LET k == IF WroteAt(n) THEN Len(msgs) - 1 ELSE Len(msgs)
    IN IF k >= 1 THEN msgs[k].loss ELSE Inf

C7_WriteRecordsMinimum ==
    (pc = "incr" /\ (step + 1) % save_steps = 0) =>
        /\ WroteAt(step + 1) <=> Lt(lowest, PreviousRecorded(step + 1))
        /\ WroteAt(step + 1) =>
              /\ Last(msgs) = [n |-> step + 1, loss |-> lowest]
              /\ prev_loss = lowest

\* the instance: valid_steps=2, save_steps=4, losses 0.9, 0.5, 0.5, 0.3
C7_Witness ==
    /\ valid_steps = 2 /\ save_steps = 4 /\ valid_num = 1
    /\ pc = "incr" /\ step + 1 = 8
    /\ valid_loss = 3
    /\ msgs = <<[n |-> 4, loss |-> 5], [n |-> 8, loss |-> 3]>>
    /\ prev_loss = 3

\* C8: no redundant write: writes, messages and prev_loss change only at the
\* save gate of a save step with min_loss < prev_loss; a save gate passed
\* with min_loss >= prev_loss changes nothing of the checkpoint state; each
\* write records a strictly smaller loss than the one before.
C8_NoRedundantWrite ==
    /\ [][ /\ (writes' # writes \/ msgs' # msgs \/ prev_loss' # prev_loss) =>
                /\ pc = "save_gate"
                /\ (step + 1) % save_steps = 0
                /\ Lt(min_loss, prev_loss)
                /\ Lt(prev_loss', prev_loss)
           /\ (pc = "save_gate" /\ ~Lt(min_loss, prev_loss)) =>
                UNCHANGED <<writes, msgs, prev_loss, min_loss,
                            best_state_dict, snap>> ]_vars
    /\ [](\A k \in 2..Len(msgs) : Lt(msgs[k].loss, msgs[k-1].loss))

C8_Witness ==
    /\ pc = "incr"
    /\ save_steps # 0
    /\ (step + 1) % save_steps = 0
    /\ lowest # Inf
    /\ min_loss = prev_loss
    /\ Len(msgs) >= 2
    /\ Last(msgs).n < step + 1

\* C9: valid_fn only reads: from its call to the moment after its return the
\* parameters, the optimizer state, min_loss, prev_loss, best_state_dict (the
\* name and what it holds) and step are what they were at the call, and at
\* the return the mode is again what it was.
C9_ValidFnOnlyReads ==
    (InValidFn \/ pc = "cand") =>
        /\ params = at_call.params
        /\ opt_state = at_call.opt_state
        /\ min_loss = at_call.min_loss
        /\ prev_loss = at_call.prev_loss
        /\ best_state_dict = at_call.best_state_dict
        /\ Deref(best_state_dict, params) = at_call.contents
        /\ step = at_call.step
        /\ pc = "cand" => mode = at_call.mode

C9_Witness ==
    /\ pc = "cand"
    /\ params >= 2
    /\ best_state_dict = LiveRef
    /\ consumed[1] # 0
    /\ valid_loss # None

\* C10 (as stated): the loop ends only by a fault of a collaborator.
C10_OnlyCollaboratorFaultEnds ==
    pc = "crashed" => err.kind = "CollaboratorFault"

\* C10 (amended): with valid_steps, save_steps and valid_num positive and a
\* validation dataset of at least one batch, the loop ends only by a fault
\* of a collaborator: every other state has a next loop step, the position
\* stays inside the loop, and step grows by exactly 1, at line 156 only,
\* once per iteration.
GoodConfig ==
    valid_steps >= 1 /\ save_steps >= 1 /\ valid_num >= 1 /\ test_loader >= 1

LoopStep ==
    \/ TrainFetch \/ TrainStep \/ ValidGate \/ VEval \/ VLoop \/ VFetch
    \/ VLoss \/ VTrain \/ VReturn \/ Candidate \/ SaveGate \/ Incr

C10_NoTerminalState ==
    /\ [](GoodConfig =>
            /\ pc = "crashed" => err.kind = "CollaboratorFault"
            /\ pc # "crashed" => pc \in LoopPcs \cup {"v_eval", "v_loop",
                                    "v_fetch", "v_loss", "v_train", "v_return"}
            /\ (pc # "crashed" /\ step < MaxStep) => ENABLED LoopStep)
    /\ [][GoodConfig =>
            /\ step' # step => (pc = "incr" /\ step' = step + 1)
            /\ (pc = "incr" /\ pc' # "incr") => step' = step + 1
            /\ pc' = "fetch" => pc = "incr"]_vars

C10_Witness ==
    /\ GoodConfig
    /\ pc = "fetch"
    /\ step = MaxStep
    /\ valid_rebuilds >= 1

\* C11 (as stated): loss_fn returns exactly B for equal score tensors of
\* batch size B, and exactly 0 when every positive score exceeds its paired
\* negative score by at least 1.
EqualScores == scores_pos = scores_neg

MarginMet ==
    \A k \in 1..Len(scores_pos) : scores_pos[k] >= scores_neg[k] + One

C11_ExactlyBatchSize ==
    loss # None =>
        /\ EqualScores => loss = Len(scores_pos) * One
        /\ MarginMet => loss = 0

\* C11 (amended): loss_fn returns the float32 sum of the float32 hinge
\* terms; it is exactly 0 when every positive score exceeds its paired
\* negative score by at least 1, and exactly B for equal score tensors
\* whose elements x all have 1.0 - x exact in float32.
C11_HingeLoss ==
    loss # None =>
        /\ loss >= 0
        /\ MarginMet => loss = 0
        /\ (EqualScores /\ \A k \in 1..Len(scores_pos) :
                              Fl(One - scores_pos[k]) = One - scores_pos[k])
              => loss = Len(scores_pos) * One

C11_Witness ==
    /\ Len(scores_pos) = 2
    /\ scores_pos = <<One, 0>>
    /\ EqualScores
    /\ loss = 2 * One

\* C12 (as stated): valid_fn is called at step n exactly when
\* n mod valid_steps = 0, once per such step; every call pulls exactly
\* valid_num batches and returns the mean of their per-sample losses, a
\* non-negative value, for every configured valid_num.
RECURSIVE SumSeq(_)
SumSeq(xs) == IF xs = <<>> THEN 0 ELSE xs[1] + SumSeq(Tail(xs))

CalledWhenDue ==
    valid_steps >= 1 =>
        /\ pc \in {"fetch", "train", "valid_gate"} =>
              valid_calls = step \div valid_steps
        /\ pc \in {"cand", "save_gate", "incr"} =>
              valid_calls = (step + 1) \div valid_steps

\* with floats in units of 1/(10 * valid_num) the mean of the per-sample
\* losses l/10 of valid_num batches is their sum
ReturnsMean ==
    pc = "cand" =>
        /\ pulled = valid_num
        /\ Len(batch_losses) = valid_num
        /\ valid_loss = SumSeq(batch_losses)
        /\ valid_loss >= 0

EndedInValidFn ==
    pc = "crashed" /\ err.line \in 28..47 /\ err.kind # "CollaboratorFault"

C13_ModeDiscipline ==
    /\ [](pc = "v_loss" => mode = "eval")
    /\ [](pc = "train" => mode = "train")
    /\ [][(params' # params \/ opt_state' # opt_state) => mode = "train"]_vars

C13_Witness ==
    /\ pc = "train"
    /\ mode = "train"
    /\ valid_calls >= 1
    /\ at_call = None
    /\ params >= 1

\* the part of C14 about min_loss alone: outside the candidate update
\* min_loss is the least loss valid_fn has returned (+infinity if none), and
\* a returned loss that is not strictly less changes neither min_loss nor
\* the binding of best_state_dict
RunningMinimum ==
    /\ [](pc # "cand" => min_loss = lowest)
    /\ [][(pc = "cand" /\ ~Lt(valid_loss, min_loss)) =>
            (min_loss' = min_loss /\ best_state_dict' = best_state_dict)]_vars

\* C14: min_loss is the running minimum of the validation losses with a
\* strict gate, and best_state_dict holds the earliest model achieving that
\* minimum: what it holds is the parameters the model had when min_loss was
\* last lowered, and a later validation loss that is equal or greater
\* leaves it unchanged.
C14_RunningMinimumKeepsEarliest ==
    /\ pc # "cand" => min_loss = lowest
    /\ best_state_dict # None => Deref(best_state_dict, params) = snap

\* the 1-based step of the last validation that lowered min_loss: the model
\* has had one optimizer update per step, so it is the parameter version
\* recorded at line 146
LastImprovement == snap

\* the last step whose save gate (lines 150-154) has been passed
LastSaveStep ==
    LET passed == IF pc = "incr" THEN step + 1 ELSE step
    IN (passed \div save_steps) * save_steps

\* C15: always min_loss <= prev_loss; min_loss < prev_loss only between a
\* validation that lowered min_loss and the next save step; right after
\* every save step, with or without a write, min_loss = prev_loss.
C15_MinLossAheadOnlyBetweenSaves ==
    /\ Leq(min_loss, prev_loss)
    /\ save_steps >= 1 =>
          /\ (pc = "incr" /\ (step + 1) % save_steps = 0) =>
                min_loss = prev_loss
          /\ Lt(min_loss, prev_loss) =>
                (LastImprovement # None /\ LastImprovement > LastSaveStep)

C15_Witness ==
    /\ Len(writes) = 1
    /\ prev_loss # Inf
    /\ Lt(min_loss, prev_loss)
    /\ pc = "incr"
    /\ (step + 1) % save_steps # 0

\* C16: an improvement of min_loss is written at the next save step, that is
\* within fewer than save_steps further iterations and in the same iteration
\* when the improving step is a save step, and the write records a loss that
\* is at most every loss returned so far, the improved value included; an
\* improvement still unwritten is younger than save_steps iterations.
C16_ImprovementWrittenAtNextSaveStep ==
    save_steps >= 1 =>
        /\ ( /\ pc = "incr"
             /\ (step + 1) % save_steps = 0
             /\ LastImprovement # None
             /\ step + 1 - LastImprovement < save_steps ) =>
                /\ writes # <<>>
                /\ Last(writes).n = step + 1
                /\ Last(msgs) = [n |-> step + 1, loss |-> prev_loss]
                /\ Leq(prev_loss, lowest)
        /\ Lt(min_loss, prev_loss) =>
                LastSaveStep + save_steps - LastImprovement < save_steps

C16_Witness ==
    /\ pc = "incr"
    /\ valid_steps = 2
    /\ save_steps = 3
    /\ LastImprovement = 2
    /\ step + 1 = 3
    /\ WroteAt(3)
    /\ prev_loss = 5

\* C17: for all positive valid_steps and save_steps, save_steps < valid_steps
\* included, the save gate never fires with best_state_dict unbound: when
\* min_loss < prev_loss at a save step a validation has returned and bound
\* it, and no write holds an absent state dict.
C17_NoWriteOfAbsentSnapshot ==
    /\ ( /\ pc = "save_gate"
         /\ valid_steps >= 1
         /\ save_steps >= 1
         /\ (step + 1) % save_steps = 0
         /\ Lt(min_loss, prev_loss) ) =>
            /\ best_state_dict # None
            /\ valid_calls >= 1
            /\ lowest # Inf
    /\ \A k \in 1..Len(writes) :
            /\ writes[k].params # None
            /\ writes[k].n >= valid_steps

C17_Witness ==
    /\ save_steps < valid_steps
    /\ save_steps >= 1
    /\ pc = "save_gate"
    /\ step + 1 = valid_steps
    /\ Lt(min_loss, prev_loss)
    /\ best_state_dict # None
    /\ valid_calls = 1

\* the order of the phases of one iteration (lines 120-156), valid_fn being
\* run inside the validation phase; any phase can end the run by raising
PhaseOrder ==
    {<<"fetch", "train">>, <<"train", "valid_gate">>,
     <<"valid_gate", "v_eval">>, <<"valid_gate", "save_gate">>,
     <<"v_eval", "v_loop">>, <<"v_loop", "v_fetch">>, <<"v_fetch", "v_loss">>,
     <<"v_loss", "v_loop">>, <<"v_loop", "v_train">>,
     <<"v_train", "v_return">>, <<"v_return", "cand">>,
     <<"cand", "save_gate">>, <<"save_gate", "incr">>, <<"incr", "fetch">>}

\* C18: the phases of an iteration run in the order fetch, optimizer update,
\* validation, save, increment, each changing only its own part of the
\* state; when the save gate of a validation step is evaluated min_loss
\* already accounts for that step's loss; with valid_steps = save_steps every
\* improvement is written in the iteration that observed it, and every
\* write holds the parameters the model has at the step of the write.
C18_PhaseOrderAndSameIterationWrite ==
    /\ [][ /\ pc' # pc => (pc' = "crashed" \/ <<pc, pc'>> \in PhaseOrder)
           /\ batch' # batch => <<pc, pc'>> = <<"fetch", "train">>
           /\ params' # params => <<pc, pc'>> = <<"train", "valid_gate">>
           /\ (min_loss' # min_loss \/ best_state_dict' # best_state_dict) =>
                  <<pc, pc'>> = <<"cand", "save_gate">>
           /\ (writes' # writes \/ prev_loss' # prev_loss) =>
                  <<pc, pc'>> = <<"save_gate", "incr">>
           /\ step' # step => <<pc, pc'>> = <<"incr", "fetch">> ]_vars
    /\ []( (pc = "save_gate" /\ valid_steps >= 1
                /\ (step + 1) % valid_steps = 0) =>
              /\ min_loss = lowest
              /\ Leq(min_loss, valid_loss)
              /\ valid_calls = (step + 1) \div valid_steps
              /\ params = step + 1 )
    /\ []( (valid_steps = save_steps /\ valid_steps >= 1) =>
              /\ \A k \in 1..Len(writes) :
                    /\ writes[k].params = writes[k].n
                    /\ writes[k].best = writes[k].n
              /\ (pc = "incr" /\ LastImprovement = step + 1) =>
                    /\ WroteAt(step + 1)
                    /\ Last(msgs).loss = min_loss
              /\ pc \in LoopPcs \ {"save_gate"} => min_loss = prev_loss )

C18_Witness ==
    /\ valid_steps = 2
    /\ save_steps = 2
    /\ pc = "incr"
    /\ step + 1 = 4
    /\ Len(writes) = 2
    /\ Last(writes) = [n |-> 4, params |-> 4, best |-> 4]
    /\ LastImprovement = 4

====
